---- MODULE Spec2Model ----
(***************************************************************************)
(* Model of the rotation cache of server.js: the module-level photo        *)
(* storage (currentPhotos, photoQueue, lastFetchTimestamp, photoHistory),  *)
(* the async function ensureCurrentPhotos and the GET /api/photos handler  *)
(* that awaits it.  Node runs each handler to its first await without      *)
(* interruption, so one action is one such run: the synchronous prefix of  *)
(* a request (Call), the continuation after the awaited fetch resolved     *)
(* (FetchOk) or rejected (FetchFail), and the response being written       *)
(* (Respond).  Time is the wall clock in milliseconds.                     *)
(* GET /api/history is one synchronous run (GetHistory).                   *)
(*                                                                         *)
(* Two smaller specifications share the module: SpecRecord applies the     *)
(* field fallbacks of addToHistory to photo records with every combination *)
(* of optional fields, and SpecApp is the React client of App.jsx (clock   *)
(* interval, hour-change effect, mount effect, fetchPhotosForHour).        *)
(* SpecLive is the server under the fairness a recovery needs.             *)
(***************************************************************************)
EXTENDS Integers, Sequences, FiniteSets, TLC

\* ---- program constants (server.js:22-25) ----
PHOTOS_PER_HOUR == 6
PHOTOS_PER_BATCH == 10
PHOTO_EXPIRATION_MINUTES == 55
\* server.js:24 sets 1440; the model keeps the log small enough to fill it.
MAX_HISTORY_SIZE == 8

\* ---- bounds of the model ----
NumReqs == 2
MaxFetches == 3
MaxTicks == 2

Reqs == 1..NumReqs
\* Lengths of the array a successful fetch resolves with: empty, short, exact,
\* long.
FetchLens == {0, 3, PHOTOS_PER_BATCH, 12}
\* Clock advances: one millisecond, or one millisecond short of a window.
TickSteps == {1, PHOTO_EXPIRATION_MINUTES * 60 * 1000 - 1}

\* lastFetchTimestamp = null (server.js:19): a value no clock reading takes
Null == -1
\* what a call of ensureCurrentPhotos settled with
Pending == [status |-> "pending", photos |-> <<>>, message |-> ""]
Returned(ps) == [status |-> "ok", photos |-> ps, message |-> ""]
\* throw new Error(`Unsplash API error: ...`) (server.js:33)
Error == [status |-> "error", photos |-> <<>>, message |-> "Unsplash API error"]
\* no /api/history body was written in the step
NoBody == <<>>
NoPre == [cur |-> <<>>, ts |-> Null, queue |-> <<>>, hist |-> <<>>,
          refreshes |-> 0, fetchCalls |-> 0, at |-> 0]

\* ---- values of the record and client specifications ----
\* text is a sequence of tokens; undefined and null are texts no field holds
Undefined == <<"#undefined">>
NullText == <<"#null">>
NoPhoto == [id |-> <<>>]
NoItem == [id |-> <<>>]
\* `a || b` on texts: undefined, null and the empty text are falsy
Truthy(x) == x \notin {Undefined, NullText, <<>>}
\* photo records with every combination of the fields addToHistory reads
Users == {[defined |-> FALSE, name |-> Undefined],
          [defined |-> TRUE, name |-> Undefined],
          [defined |-> TRUE, name |-> <<>>],
          [defined |-> TRUE, name |-> <<"Ann Lee">>]}
Descriptions == {Undefined, NullText, <<>>, <<"a sunset">>}
AltDescriptions == {Undefined, NullText, <<>>, <<"orange sky">>}
LinkSets == {[defined |-> FALSE, html |-> Undefined],
             [defined |-> TRUE, html |-> Undefined],
             [defined |-> TRUE, html |-> <<"https://unsplash.com/photos/", "sunset-p1">>]}
PhotoIds == {<<"p1">>, <<"p2">>}
PhotoInputs == [id : PhotoIds, user : Users, description : Descriptions,
                alt_description : AltDescriptions, links : LinkSets]
\* hours of the wall clock at which the page is opened
StartHours == {0, 23}
\* minutes of the hour
Minutes == 0..59
\* number of minutes the wall clock advances while the page is open
MaxClockSteps == 2
\* lengths of the array /api/photos answers with: a partial and a full set
ResponseLens == {3, PHOTOS_PER_HOUR}

VARIABLES
  currentPhotos,       \* server.js:17
  photoQueue,          \* server.js:18
  lastFetchTimestamp,  \* server.js:19, Null or milliseconds
  photoHistory,        \* server.js:20
  now,                 \* new Date().getTime()
  pc,                  \* per request: "idle", "awaitFetch", "returned", "threw"
  photos,              \* per request: the local `photos` of ensureCurrentPhotos
  result,              \* per request: what ensureCurrentPhotos settled with
  fetchCalls,          \* number of fetchPhotosFromAPI calls issued
  nextId,              \* id of the next photo the supply source hands out
  ticks,               \* number of clock advances so far
  \* history variables, read by the properties only
  allSelected,         \* every history item ever pushed, in push order
  refreshes,           \* number of refreshes that committed
  epoch,               \* number of times the clock moved the window Fresh -> Expired
  pre,                 \* per request: storage seen when the call started
  retEpoch,            \* per request: epoch in which it returned
  member,              \* requests of the current group of simultaneous refreshers
  groupStart,          \* instant at which that group started
  groupFetches,        \* fetch calls issued by the group
  groupAppended,       \* history items pushed by the group
  lastFetched,         \* the array the last successful fetch resolved with
  exactOnly,           \* every successful fetch so far returned PHOTOS_PER_BATCH records
  lastEvent,           \* kind of the last step taken
  historyBody,         \* body GET /api/history wrote in the last step, if it was one
  \* addToHistory applied to one photo record (SpecRecord)
  photoIn,             \* the photo record handed to addToHistory
  recorded,            \* the history item built from it
  \* the client, App.jsx (SpecApp)
  wallHour,            \* new Date().getHours()
  wallMinute,          \* new Date().getMinutes()
  clockSteps,          \* number of minutes the wall clock advanced
  mounted,             \* the component rendered once and its mount effects ran
  currentTime,         \* App.jsx:12, the minute of the Date held in state
  currentHour,         \* App.jsx:13
  lastFetchedHour,     \* App.jsx:14, lastFetchedHour.current
  hourEffect,          \* the [currentHour] effect of lines 66-71 is due to run
  pendingHours,        \* hour argument of every fetchPhotosForHour call awaiting its response
  appPhotos,           \* App.jsx:9, photos
  loading,             \* App.jsx:10
  error,               \* App.jsx:11
  historyReq,          \* fetchHistory: "none", "pending", "done"
  issued               \* every hour argument a /api/photos request was issued with, in order

vars == <<currentPhotos, photoQueue, lastFetchTimestamp, photoHistory, now, pc,
          photos, result, fetchCalls, nextId, ticks, allSelected, refreshes,
          epoch, pre, retEpoch, member, groupStart, groupFetches,
          groupAppended, lastFetched, exactOnly, lastEvent, historyBody,
          photoIn, recorded,
          wallHour, wallMinute, clockSteps, mounted, currentTime, currentHour,
          lastFetchedHour, hourEffect, pendingHours, appPhotos, loading, error,
          historyReq, issued>>

serverVars == <<currentPhotos, photoQueue, lastFetchTimestamp, photoHistory, now, pc,
                photos, result, fetchCalls, nextId, ticks, allSelected, refreshes,
                epoch, pre, retEpoch, member, groupStart, groupFetches,
                groupAppended, lastFetched, exactOnly, lastEvent, historyBody>>

recordVars == <<photoIn, recorded>>

appVars == <<wallHour, wallMinute, clockSteps, mounted, currentTime, currentHour,
             lastFetchedHour, hourEffect, pendingHours, appPhotos, loading, error,
             historyReq, issued>>

\* what a step of the server leaves alone
outside == <<recordVars, appVars>>

ghostGroup == <<member, groupStart, groupFetches, groupAppended>>

ghostFetch == <<lastFetched, exactOnly>>

\* ---- helpers ----
Min(a, b) == IF a < b THEN a ELSE b

\* slice with an inclusive end index
Slice_offByOne(s, from, to) ==
  LET lo == Min(from, Len(s))
      hi == Min(to + 1, Len(s))
  IN IF hi <= lo THEN <<>> ELSE SubSeq(s, lo + 1, hi)

\* slice that never reads past the requested batch size
Slice_capped(s, from, to) ==
  LET lo == Min(from, Len(s))
      hi == Min(Min(to, Len(s)), PHOTOS_PER_BATCH)
  IN IF hi <= lo THEN <<>> ELSE SubSeq(s, lo + 1, hi)

\* Array.prototype.slice(from, to) on a 1-based sequence, indices clamped.
Slice(s, from, to) ==
  LET lo == Min(from, Len(s))
      hi == Min(to, Len(s))
  IN IF hi <= lo THEN <<>> ELSE SubSeq(s, lo + 1, hi)

\* Date.prototype.toISOString: the instant as a tagged text value.
toISOString(t) == <<"iso", t>>

\* the expiry test with > in place of >=
shouldRefreshAt_strict(last, t) ==
  IF last = Null THEN TRUE
  ELSE (t - last) > PHOTO_EXPIRATION_MINUTES * (1000 * 60)

\* the expiry test with the elapsed time taken in seconds, not minutes
shouldRefreshAt_seconds(last, t) ==
  IF last = Null THEN TRUE
  ELSE (t - last) >= PHOTO_EXPIRATION_MINUTES * 1000

\* shouldRefreshPhotos(): elapsedMinutes = (now - last) / (1000 * 60) >= 55,
\* stated without the division.
shouldRefreshAt(last, t) ==
  IF last = Null THEN TRUE
  ELSE (t - last) >= PHOTO_EXPIRATION_MINUTES * (1000 * 60)

shouldRefreshPhotos == shouldRefreshAt(lastFetchTimestamp, now)

\* addToHistory without the trim of lines 64-66
addToHistory_noShift(history, photo, t) ==
  Append(history, [id |-> photo.id, timestamp |-> toISOString(t)])

\* addToHistory with pop() in place of shift(): the newest item is dropped
addToHistory_pop(history, photo, t) ==
  LET pushed == Append(history, [id |-> photo.id, timestamp |-> toISOString(t)])
  IN IF Len(pushed) > MAX_HISTORY_SIZE THEN SubSeq(pushed, 1, Len(pushed) - 1) ELSE pushed

\* addToHistory(photo): push, then shift once if over capacity.
addToHistory(history, photo, t) ==
  LET historyItem == [id |-> photo.id, timestamp |-> toISOString(t)]
      pushed == Append(history, historyItem)
  IN IF Len(pushed) > MAX_HISTORY_SIZE THEN Tail(pushed) ELSE pushed

\* the photos recorded from the last to the first
RECURSIVE addAllToHistory_backwards(_, _, _)
addAllToHistory_backwards(history, ps, t) ==
  IF ps = <<>> THEN history
  ELSE addAllToHistory_backwards(addToHistory(history, ps[Len(ps)], t),
                                 SubSeq(ps, 1, Len(ps) - 1), t)

\* photos.forEach(photo => addToHistory(photo))
RECURSIVE addAllToHistory(_, _, _)
addAllToHistory(history, ps, t) ==
  IF ps = <<>> THEN history
  ELSE addAllToHistory(addToHistory(history, Head(ps), t), Tail(ps), t)

\* the history items of ps, untrimmed (history variable allSelected)
RECURSIVE itemsOf(_, _)
itemsOf(ps, t) ==
  IF ps = <<>> THEN <<>>
  ELSE <<[id |-> Head(ps).id, timestamp |-> toISOString(t)]>> \o itemsOf(Tail(ps), t)

\* the drain loop with pop() in place of shift(): taken from the tail
RECURSIVE takeFromQueue_pop(_, _, _)
takeFromQueue_pop(ps, queue, needed) ==
  IF Len(ps) < needed /\ Len(queue) > 0
  THEN takeFromQueue_pop(Append(ps, queue[Len(queue)]),
                         SubSeq(queue, 1, Len(queue) - 1), needed)
  ELSE [photos |-> ps, queue |-> queue]

\* the drain loop reading the head of the queue without removing it
takeFromQueue_peek(ps, queue, needed) ==
  LET k == Min(needed - Len(ps), Len(queue))
  IN [photos |-> ps \o SubSeq(queue, 1, k), queue |-> queue]

\* while (photos.length < needed && photoQueue.length > 0) photos.push(photoQueue.shift())
RECURSIVE takeFromQueue(_, _, _)
takeFromQueue(ps, queue, needed) ==
  IF Len(ps) < needed /\ Len(queue) > 0
  THEN takeFromQueue(Append(ps, Head(queue)), Tail(queue), needed)
  ELSE [photos |-> ps, queue |-> queue]

\* the array a successful fetch resolves with: n fresh photo records
fetchedPhotos(n) == [i \in 1..n |-> [id |-> nextId + i - 1]]

inFlight == {q \in Reqs : pc[q] = "awaitFetch"}

\* the module-level storage of server.js before any request
InitServer ==
  /\ currentPhotos = <<>>
  /\ photoQueue = <<>>
  /\ lastFetchTimestamp = Null
  /\ photoHistory = <<>>
  /\ now = 0
  /\ pc = [r \in Reqs |-> "idle"]
  /\ photos = [r \in Reqs |-> <<>>]
  /\ result = [r \in Reqs |-> Pending]
  /\ fetchCalls = 0
  /\ nextId = 1
  /\ ticks = 0
  /\ allSelected = <<>>
  /\ refreshes = 0
  /\ epoch = 0
  /\ pre = [r \in Reqs |-> NoPre]
  /\ retEpoch = [r \in Reqs |-> 0]
  /\ member = {}
  /\ groupStart = 0
  /\ groupFetches = 0
  /\ groupAppended = 0
  /\ lastFetched = <<>>
  /\ exactOnly = TRUE
  /\ lastEvent = "init"
  /\ historyBody = NoBody

\* no photo record was handed to addToHistory
InitRecordIdle ==
  /\ photoIn = NoPhoto
  /\ recorded = NoItem

\* the page is not open
InitAppIdle ==
  /\ wallHour = 0
  /\ wallMinute = 0
  /\ clockSteps = 0
  /\ mounted = FALSE
  /\ currentTime = 0
  /\ currentHour = -1
  /\ lastFetchedHour = -1
  /\ hourEffect = FALSE
  /\ pendingHours = <<>>
  /\ appPhotos = <<>>
  /\ loading = TRUE
  /\ error = FALSE
  /\ historyReq = "none"
  /\ issued = <<>>

Init == InitServer /\ InitRecordIdle /\ InitAppIdle

\* the commit stamping the history items with the window start it replaces
commit_oldStamp(ps) ==
  /\ photoHistory' = addAllToHistory(photoHistory, ps, lastFetchTimestamp)
  /\ currentPhotos' = ps
  /\ lastFetchTimestamp' = now
  /\ allSelected' = allSelected \o itemsOf(ps, now)
  /\ refreshes' = refreshes + 1

\* lines 95-99 of ensureCurrentPhotos: record, publish, restart the window
commit(ps) ==
  /\ photoHistory' = addAllToHistory(photoHistory, ps, now)
  /\ currentPhotos' = ps
  /\ lastFetchTimestamp' = now
  /\ allSelected' = allSelected \o itemsOf(ps, now)
  /\ refreshes' = refreshes + 1

snapshot == [cur |-> currentPhotos, ts |-> lastFetchTimestamp, queue |-> photoQueue,
             hist |-> photoHistory, refreshes |-> refreshes, fetchCalls |-> fetchCalls,
             at |-> now]

\* a cached read that restarts the window (sliding expiration)
CallFresh_slide(r) ==
  /\ pc[r] = "idle"
  /\ ~shouldRefreshPhotos
  /\ pc' = [pc EXCEPT ![r] = "returned"]
  /\ result' = [result EXCEPT ![r] = Returned(currentPhotos)]
  /\ pre' = [pre EXCEPT ![r] = snapshot]
  /\ retEpoch' = [retEpoch EXCEPT ![r] = epoch]
  /\ lastFetchTimestamp' = now
  /\ lastEvent' = "callFresh"
  /\ historyBody' = NoBody
  /\ UNCHANGED outside
  /\ UNCHANGED <<currentPhotos, photoQueue, photoHistory, now,
                 photos, fetchCalls, nextId, ticks, allSelected, refreshes, epoch,
                 ghostGroup, ghostFetch>>

\* GET /api/photos, window not expired: ensureCurrentPhotos returns currentPhotos.
CallFresh(r) ==
  /\ pc[r] = "idle"
  /\ ~shouldRefreshPhotos
  /\ pc' = [pc EXCEPT ![r] = "returned"]
  /\ result' = [result EXCEPT ![r] = Returned(currentPhotos)]
  /\ pre' = [pre EXCEPT ![r] = snapshot]
  /\ retEpoch' = [retEpoch EXCEPT ![r] = epoch]
  /\ lastEvent' = "callFresh"
  /\ historyBody' = NoBody
  /\ UNCHANGED outside
  /\ UNCHANGED <<currentPhotos, photoQueue, lastFetchTimestamp, photoHistory, now,
                 photos, fetchCalls, nextId, ticks, allSelected, refreshes, epoch,
                 ghostGroup, ghostFetch>>

\* GET /api/photos, window expired and the queue alone fills the set: the
\* refresh runs to its end without awaiting.
CallQueue(r) ==
  /\ pc[r] = "idle"
  /\ shouldRefreshPhotos
  /\ LET t == takeFromQueue(<<>>, photoQueue, PHOTOS_PER_HOUR)
     IN /\ ~(Len(t.photos) < PHOTOS_PER_HOUR)
        /\ photoQueue' = t.queue
        /\ commit(t.photos)
        /\ result' = [result EXCEPT ![r] = Returned(t.photos)]
  /\ pc' = [pc EXCEPT ![r] = "returned"]
  /\ pre' = [pre EXCEPT ![r] = snapshot]
  /\ retEpoch' = [retEpoch EXCEPT ![r] = epoch]
  /\ lastEvent' = "callQueue"
  /\ historyBody' = NoBody
  /\ UNCHANGED outside
  /\ UNCHANGED <<now, photos, fetchCalls, nextId, ticks, epoch, ghostGroup, ghostFetch>>

\* GET /api/photos, window expired and the queue falls short: the queue is
\* drained into the local list, the fetch is issued and the call suspends.
CallFetch(r) ==
  /\ pc[r] = "idle"
  /\ shouldRefreshPhotos
  /\ fetchCalls < MaxFetches
  /\ LET t == takeFromQueue(<<>>, photoQueue, PHOTOS_PER_HOUR)
     IN /\ Len(t.photos) < PHOTOS_PER_HOUR
        /\ photoQueue' = t.queue
        /\ photos' = [photos EXCEPT ![r] = t.photos]
  /\ fetchCalls' = fetchCalls + 1
  /\ pc' = [pc EXCEPT ![r] = "awaitFetch"]
  /\ pre' = [pre EXCEPT ![r] = snapshot]
  /\ IF inFlight = {}
     THEN /\ member' = {r}
          /\ groupStart' = now
          /\ groupFetches' = 1
          /\ groupAppended' = 0
     ELSE IF now = groupStart /\ member \cap inFlight # {}
     THEN /\ member' = member \cup {r}
          /\ groupFetches' = groupFetches + 1
          /\ UNCHANGED <<groupStart, groupAppended>>
     ELSE UNCHANGED ghostGroup
  /\ lastEvent' = "callFetch"
  /\ historyBody' = NoBody
  /\ UNCHANGED outside
  /\ UNCHANGED <<currentPhotos, lastFetchTimestamp, photoHistory, now, result,
                 nextId, ticks, allSelected, refreshes, epoch, retEpoch, ghostFetch>>

\* the continuation restarting the window at the instant the call read the
\* clock for its expiry test, not at the instant the fetch resolved
FetchOk_decisionNow(r, n) ==
  /\ pc[r] = "awaitFetch"
  /\ LET fetched == fetchedPhotos(n)
         takeCount == PHOTOS_PER_HOUR - Len(photos[r])
         ps == photos[r] \o Slice(fetched, 0, takeCount)
     IN /\ photoQueue' = photoQueue \o Slice(fetched, takeCount, Len(fetched))
        /\ photoHistory' = addAllToHistory(photoHistory, ps, pre[r].at)
        /\ currentPhotos' = ps
        /\ lastFetchTimestamp' = pre[r].at
        /\ allSelected' = allSelected \o itemsOf(ps, pre[r].at)
        /\ refreshes' = refreshes + 1
        /\ photos' = [photos EXCEPT ![r] = ps]
        /\ result' = [result EXCEPT ![r] = Returned(ps)]
        /\ groupAppended' = IF r \in member THEN groupAppended + Len(ps)
                            ELSE groupAppended
  /\ nextId' = nextId + n
  /\ lastFetched' = fetchedPhotos(n)
  /\ exactOnly' = (exactOnly /\ n = PHOTOS_PER_BATCH)
  /\ pc' = [pc EXCEPT ![r] = "returned"]
  /\ retEpoch' = [retEpoch EXCEPT ![r] = epoch]
  /\ lastEvent' = "fetchOk"
  /\ historyBody' = NoBody
  /\ UNCHANGED outside
  /\ UNCHANGED <<now, fetchCalls, ticks, epoch, pre, member, groupStart, groupFetches>>

\* the continuation suspending half way through the recording loop: the set
\* is published and only its first half is in the log
FetchOk_halfRecorded(r, n) ==
  /\ pc[r] = "awaitFetch"
  /\ LET fetched == fetchedPhotos(n)
         takeCount == PHOTOS_PER_HOUR - Len(photos[r])
         ps == photos[r] \o Slice(fetched, 0, takeCount)
         half == SubSeq(ps, 1, Len(ps) \div 2)
     IN /\ photoQueue' = photoQueue \o Slice(fetched, takeCount, Len(fetched))
        /\ photoHistory' = addAllToHistory(photoHistory, half, now)
        /\ currentPhotos' = ps
        /\ lastFetchTimestamp' = now
        /\ allSelected' = allSelected \o itemsOf(half, now)
        /\ refreshes' = refreshes + 1
        /\ photos' = [photos EXCEPT ![r] = ps]
        /\ result' = [result EXCEPT ![r] = Returned(ps)]
        /\ groupAppended' = IF r \in member THEN groupAppended + Len(ps)
                            ELSE groupAppended
  /\ nextId' = nextId + n
  /\ lastFetched' = fetchedPhotos(n)
  /\ exactOnly' = (exactOnly /\ n = PHOTOS_PER_BATCH)
  /\ pc' = [pc EXCEPT ![r] = "returned"]
  /\ retEpoch' = [retEpoch EXCEPT ![r] = epoch]
  /\ lastEvent' = "fetchOk"
  /\ historyBody' = NoBody
  /\ UNCHANGED outside
  /\ UNCHANGED <<now, fetchCalls, ticks, epoch, pre, member, groupStart, groupFetches>>

\* The awaited fetch resolved with n records: lines 88-102.
FetchOk(r, n) ==
  /\ pc[r] = "awaitFetch"
  /\ LET fetched == fetchedPhotos(n)
         takeCount == PHOTOS_PER_HOUR - Len(photos[r])
         ps == photos[r] \o Slice(fetched, 0, takeCount)
     IN /\ photoQueue' = photoQueue \o Slice(fetched, takeCount, Len(fetched))
        /\ commit(ps)
        /\ photos' = [photos EXCEPT ![r] = ps]
        /\ result' = [result EXCEPT ![r] = Returned(ps)]
        /\ groupAppended' = IF r \in member THEN groupAppended + Len(ps)
                            ELSE groupAppended
  /\ nextId' = nextId + n
  /\ lastFetched' = fetchedPhotos(n)
  /\ exactOnly' = (exactOnly /\ n = PHOTOS_PER_BATCH)
  /\ pc' = [pc EXCEPT ![r] = "returned"]
  /\ retEpoch' = [retEpoch EXCEPT ![r] = epoch]
  /\ lastEvent' = "fetchOk"
  /\ historyBody' = NoBody
  /\ UNCHANGED outside
  /\ UNCHANGED <<now, fetchCalls, ticks, epoch, pre, member, groupStart, groupFetches>>

\* a failure path that restarts the window although nothing was fetched
FetchFail_touch(r) ==
  /\ pc[r] = "awaitFetch"
  /\ pc' = [pc EXCEPT ![r] = "threw"]
  /\ result' = [result EXCEPT ![r] = Error]
  /\ lastFetchTimestamp' = now
  /\ lastEvent' = "fetchFail"
  /\ historyBody' = NoBody
  /\ UNCHANGED outside
  /\ UNCHANGED <<currentPhotos, photoQueue, photoHistory, now,
                 photos, fetchCalls, nextId, ticks, allSelected, refreshes, epoch,
                 pre, retEpoch, ghostGroup, ghostFetch>>

\* a failure path that swallows the error and publishes what the call holds
FetchFail_swallow(r) ==
  /\ pc[r] = "awaitFetch"
  /\ pc' = [pc EXCEPT ![r] = "returned"]
  /\ result' = [result EXCEPT ![r] = Returned(photos[r])]
  /\ currentPhotos' = photos[r]
  /\ lastFetchTimestamp' = now
  /\ lastEvent' = "fetchFail"
  /\ historyBody' = NoBody
  /\ UNCHANGED outside
  /\ UNCHANGED <<photoQueue, photoHistory, now,
                 photos, fetchCalls, nextId, ticks, allSelected, refreshes, epoch,
                 pre, retEpoch, ghostGroup, ghostFetch>>

\* The awaited fetch rejected, or the response was not ok (line 33): the error
\* leaves ensureCurrentPhotos and reaches the handler's catch.
FetchFail(r) ==
  /\ pc[r] = "awaitFetch"
  /\ pc' = [pc EXCEPT ![r] = "threw"]
  /\ result' = [result EXCEPT ![r] = Error]
  /\ lastEvent' = "fetchFail"
  /\ historyBody' = NoBody
  /\ UNCHANGED outside
  /\ UNCHANGED <<currentPhotos, photoQueue, lastFetchTimestamp, photoHistory, now,
                 photos, fetchCalls, nextId, ticks, allSelected, refreshes, epoch,
                 pre, retEpoch, ghostGroup, ghostFetch>>

\* res.json(photos) or res.status(500).json(...): the request is over.
Respond(r) ==
  /\ pc[r] \in {"returned", "threw"}
  /\ pc' = [pc EXCEPT ![r] = "idle"]
  /\ photos' = [photos EXCEPT ![r] = <<>>]
  /\ result' = [result EXCEPT ![r] = Pending]
  /\ pre' = [pre EXCEPT ![r] = NoPre]
  /\ retEpoch' = [retEpoch EXCEPT ![r] = 0]
  /\ member' = member \ {r}
  /\ lastEvent' = "respond"
  /\ historyBody' = NoBody
  /\ UNCHANGED outside
  /\ UNCHANGED <<currentPhotos, photoQueue, lastFetchTimestamp, photoHistory, now,
                 fetchCalls, nextId, ticks, allSelected, refreshes, epoch,
                 groupStart, groupFetches, groupAppended, ghostFetch>>

Reverse(s) == [i \in 1..Len(s) |-> s[Len(s) + 1 - i]]

\* the log served newest first
GetHistory_newestFirst ==
  /\ historyBody' = Reverse(photoHistory)
  /\ lastEvent' = "history"
  /\ UNCHANGED <<currentPhotos, photoQueue, lastFetchTimestamp, photoHistory, now, pc,
                 photos, result, fetchCalls, nextId, ticks, allSelected, refreshes,
                 epoch, pre, retEpoch, ghostGroup, ghostFetch>>
  /\ UNCHANGED outside

\* GET /api/history: res.json({ history: photoHistory }), one synchronous run.
GetHistory ==
  /\ historyBody' = photoHistory
  /\ lastEvent' = "history"
  /\ UNCHANGED <<currentPhotos, photoQueue, lastFetchTimestamp, photoHistory, now, pc,
                 photos, result, fetchCalls, nextId, ticks, allSelected, refreshes,
                 epoch, pre, retEpoch, ghostGroup, ghostFetch>>
  /\ UNCHANGED outside

\* The wall clock advances by d milliseconds.
Tick(d) ==
  /\ ticks < MaxTicks
  /\ now' = now + d
  /\ ticks' = ticks + 1
  /\ epoch' = IF ~shouldRefreshPhotos /\ shouldRefreshAt(lastFetchTimestamp, now + d)
              THEN epoch + 1 ELSE epoch
  /\ lastEvent' = "tick"
  /\ historyBody' = NoBody
  /\ UNCHANGED outside
  /\ UNCHANGED <<currentPhotos, photoQueue, lastFetchTimestamp, photoHistory, pc,
                 photos, result, fetchCalls, nextId, allSelected, refreshes, pre,
                 retEpoch, ghostGroup, ghostFetch>>

Next ==
  \/ \E r \in Reqs : CallFresh(r)
  \/ \E r \in Reqs : CallQueue(r)
  \/ \E r \in Reqs : CallFetch(r)
  \/ \E r \in Reqs : \E n \in FetchLens : FetchOk(r, n)
  \/ \E r \in Reqs : FetchFail(r)
  \/ \E r \in Reqs : Respond(r)
  \/ GetHistory
  \/ \E d \in TickSteps : Tick(d)

Spec == Init /\ [][Next]_vars

\* ---- addToHistory on one photo record (server.js:52-67) ----

InitRecord ==
  /\ InitServer
  /\ InitAppIdle
  /\ photoIn \in PhotoInputs
  /\ recorded = NoItem

\* a || b
Or(a, b) == IF Truthy(a) THEN a ELSE b

\* the history item with the description taken from photo.description alone
historyItem_noAlt(photo, t) ==
  [id |-> photo.id,
   name |-> Or(IF photo.user.defined THEN photo.user.name ELSE Undefined,
               <<"Unknown">>),
   description |-> Or(photo.description, <<>>),
   link |-> Or(IF photo.links.defined THEN photo.links.html ELSE Undefined,
               <<"https://unsplash.com/photos/">> \o photo.id),
   timestamp |-> toISOString(t)]

\* lines 53-59: photo.user?.name || 'Unknown', photo.description ||
\* photo.alt_description || '', photo.links?.html || the URL built from the id
historyItem(photo, t) ==
  [id |-> photo.id,
   name |-> Or(IF photo.user.defined THEN photo.user.name ELSE Undefined,
               <<"Unknown">>),
   description |-> Or(Or(photo.description, photo.alt_description), <<>>),
   link |-> Or(IF photo.links.defined THEN photo.links.html ELSE Undefined,
               <<"https://unsplash.com/photos/">> \o photo.id),
   timestamp |-> toISOString(t)]

\* lines 61-66: push, then shift once if over capacity
pushHistory(history, item) ==
  LET pushed == Append(history, item)
  IN IF Len(pushed) > MAX_HISTORY_SIZE THEN Tail(pushed) ELSE pushed

\* addToHistory(photoIn)
RecordPhoto ==
  /\ recorded = NoItem
  /\ recorded' = historyItem(photoIn, now)
  /\ photoHistory' = pushHistory(photoHistory, historyItem(photoIn, now))
  /\ UNCHANGED <<currentPhotos, photoQueue, lastFetchTimestamp, now, pc,
                 photos, result, fetchCalls, nextId, ticks, allSelected, refreshes,
                 epoch, pre, retEpoch, ghostGroup, ghostFetch, lastEvent, historyBody>>
  /\ UNCHANGED <<photoIn, appVars>>

NextRecord == RecordPhoto

SpecRecord == InitRecord /\ [][NextRecord]_vars

\* ---- the client, App.jsx ----

InitApp ==
  /\ InitServer
  /\ InitRecordIdle
  /\ wallHour \in StartHours
  /\ wallMinute \in Minutes
  /\ clockSteps = 0
  /\ mounted = FALSE
  /\ currentTime = 0
  /\ currentHour = -1
  /\ lastFetchedHour = -1
  /\ hourEffect = FALSE
  /\ pendingHours = <<>>
  /\ appPhotos = <<>>
  /\ loading = TRUE
  /\ error = FALSE
  /\ historyReq = "none"
  /\ issued = <<>>

\* the index computed by rounding to the nearest ten
getPhotoIndex_round == (currentTime + 5) \div 10

\* getPhotoIndex(): Math.floor(currentTime.getMinutes() / 10)
getPhotoIndex == currentTime \div 10

\* s without its i-th element
RemoveAt(s, i) == SubSeq(s, 1, i - 1) \o SubSeq(s, i + 1, Len(s))

\* The component renders for the first time and its effects run in order: the
\* interval is set, the [currentHour] effect sees -1 and does nothing, the
\* mount effect sets currentHour, calls fetchPhotosForHour(hour) up to its
\* await, and fetchHistory().  The new currentHour makes the [currentHour]
\* effects due after the re-render.
Mount ==
  /\ ~mounted
  /\ mounted' = TRUE
  /\ currentTime' = wallMinute
  /\ currentHour' = wallHour
  /\ hourEffect' = TRUE
  /\ error' = FALSE
  /\ loading' = TRUE
  /\ pendingHours' = Append(pendingHours, wallHour)
  /\ issued' = Append(issued, wallHour)
  /\ historyReq' = "pending"
  /\ UNCHANGED <<wallHour, wallMinute, clockSteps, lastFetchedHour, appPhotos>>
  /\ UNCHANGED <<serverVars, recordVars>>

\* The [currentHour] effect of lines 66-71 runs after a render in which
\* currentHour changed.
RunHourEffect ==
  /\ mounted
  /\ hourEffect
  /\ hourEffect' = FALSE
  /\ IF currentHour # -1 /\ currentHour # lastFetchedHour
     THEN /\ error' = FALSE
          /\ loading' = TRUE
          /\ pendingHours' = Append(pendingHours, currentHour)
          /\ issued' = Append(issued, currentHour)
     ELSE UNCHANGED <<error, loading, pendingHours, issued>>
  /\ UNCHANGED <<wallHour, wallMinute, clockSteps, mounted, currentTime, currentHour,
                 lastFetchedHour, appPhotos, historyReq>>
  /\ UNCHANGED <<serverVars, recordVars>>

\* The interval callback of lines 51-60.  The interval is set again by the
\* [currentHour] effect after each render that changed currentHour, so the
\* callback compares with the currentHour of the last render.
IntervalTick ==
  /\ mounted
  /\ ~hourEffect
  /\ currentTime' = wallMinute
  /\ IF wallHour # currentHour
     THEN /\ currentHour' = wallHour
          /\ hourEffect' = TRUE
     ELSE UNCHANGED <<currentHour, hourEffect>>
  /\ UNCHANGED <<wallHour, wallMinute, clockSteps, mounted, lastFetchedHour,
                 pendingHours, appPhotos, loading, error, historyReq, issued>>
  /\ UNCHANGED <<serverVars, recordVars>>

\* The response of the i-th pending /api/photos request arrived with n photos:
\* lines 39-42.  Effects that are due run before any response is handled.
PhotosOk(i, n) ==
  /\ ~hourEffect
  /\ i \in 1..Len(pendingHours)
  /\ appPhotos' = [k \in 1..n |-> [id |-> k]]
  /\ loading' = FALSE
  /\ lastFetchedHour' = pendingHours[i]
  /\ pendingHours' = RemoveAt(pendingHours, i)
  /\ UNCHANGED <<wallHour, wallMinute, clockSteps, mounted, currentTime, currentHour,
                 hourEffect, error, historyReq, issued>>
  /\ UNCHANGED <<serverVars, recordVars>>

\* The i-th pending request failed or was answered with an error status:
\* lines 35-37 and 43-47.
PhotosFail(i) ==
  /\ ~hourEffect
  /\ i \in 1..Len(pendingHours)
  /\ error' = TRUE
  /\ loading' = FALSE
  /\ pendingHours' = RemoveAt(pendingHours, i)
  /\ UNCHANGED <<wallHour, wallMinute, clockSteps, mounted, currentTime, currentHour,
                 lastFetchedHour, hourEffect, appPhotos, historyReq, issued>>
  /\ UNCHANGED <<serverVars, recordVars>>

\* fetchHistory() settled: lines 83-93.
HistorySettled ==
  /\ historyReq = "pending"
  /\ historyReq' = "done"
  /\ UNCHANGED <<wallHour, wallMinute, clockSteps, mounted, currentTime, currentHour,
                 lastFetchedHour, hourEffect, pendingHours, appPhotos, loading, error,
                 issued>>
  /\ UNCHANGED <<serverVars, recordVars>>

\* The wall clock passes to the next minute.
AdvanceClock ==
  /\ clockSteps < MaxClockSteps
  /\ clockSteps' = clockSteps + 1
  /\ wallMinute' = (wallMinute + 1) % 60
  /\ wallHour' = IF wallMinute = 59 THEN (wallHour + 1) % 24 ELSE wallHour
  /\ UNCHANGED <<mounted, currentTime, currentHour, lastFetchedHour, hourEffect,
                 pendingHours, appPhotos, loading, error, historyReq, issued>>
  /\ UNCHANGED <<serverVars, recordVars>>

NextApp ==
  \/ Mount
  \/ RunHourEffect
  \/ IntervalTick
  \/ \E i \in 1..Len(pendingHours) : \E n \in ResponseLens : PhotosOk(i, n)
  \/ \E i \in 1..Len(pendingHours) : PhotosFail(i)
  \/ HistorySettled
  \/ AdvanceClock

SpecApp == InitApp /\ [][NextApp]_vars

\* ---- the server while the supply source recovers ----

\* a fetch fails only while another fetch can still be issued, so that from
\* some point on every fetch succeeds
FetchFailLive(r) ==
  /\ fetchCalls < MaxFetches
  /\ FetchFail(r)

\* a request arrives on r and runs to its first await or to its end
Call(r) == CallFresh(r) \/ CallQueue(r) \/ CallFetch(r)

\* the awaited fetch of r settles, resolving with the batch asked for
Settle(r) == FetchOk(r, PHOTOS_PER_BATCH) \/ FetchFailLive(r)

NextLive ==
  \/ \E r \in Reqs : Call(r)
  \/ \E r \in Reqs : Settle(r)
  \/ \E r \in Reqs : Respond(r)
  \/ GetHistory
  \/ \E d \in TickSteps : Tick(d)

\* requests keep arriving, every awaited fetch settles and every settled call
\* is answered
Fairness ==
  /\ WF_vars(\E r \in Reqs : Call(r))
  /\ \A r \in Reqs : WF_vars(Settle(r))
  /\ \A r \in Reqs : WF_vars(Respond(r))

SpecLive == Init /\ [][NextLive]_vars /\ Fairness

\* ---- properties ----

\* the storage was written by nobody else since call r started its refresh
undisturbed(r) ==
  /\ refreshes = pre[r].refreshes
  /\ fetchCalls = pre[r].fetchCalls + 1

\* C1: the calls that find the window expired at one instant, with fewer than
\* PHOTOS_PER_HOUR photos queued, issue one external fetch between them and
\* push at most PHOTOS_PER_HOUR history items between them.
C1_OneFetchPerGroup ==
  /\ groupFetches <= 1
  /\ groupAppended <= PHOTOS_PER_HOUR

\* C2: at most one refresh is in flight, that is, at most one call is
\* suspended on the external fetch.
C2_SingleFlight == Cardinality(inFlight) <= 1

\* C3: a call that arrives while a refresh is in flight issues no external
\* fetch, takes nothing from the queue and does not suspend on a fetch of its
\* own.
C3_LateCallerDoesNotRefresh ==
  [][\A r \in Reqs :
       (pc[r] = "idle" /\ pc'[r] # "idle" /\ inFlight # {})
         => /\ fetchCalls' = fetchCalls
            /\ photoQueue' = photoQueue
            /\ pc'[r] # "awaitFetch"]_vars

\* C4: two calls that returned successfully with no expiry of the window
\* between their returns returned the same photo sequence.
C4_Idempotent ==
  \A r1, r2 \in Reqs :
    (pc[r1] = "returned" /\ pc[r2] = "returned" /\ retEpoch[r1] = retEpoch[r2])
      => result[r1].photos = result[r2].photos

\* C5: when the external fetch of a refresh fails, the call settles with the
\* error, no step of the call writes currentPhotos or lastFetchTimestamp, and
\* both have the values they had when the call started.
C5_FailureKeepsWindow ==
  [][\A r \in Reqs :
       /\ (pc[r] = "idle" /\ pc'[r] = "awaitFetch")
            => /\ currentPhotos' = currentPhotos
               /\ lastFetchTimestamp' = lastFetchTimestamp
       /\ (pc[r] = "awaitFetch" /\ lastEvent' = "fetchFail" /\ pc'[r] # "awaitFetch")
            => /\ pc'[r] = "threw"
               /\ result'[r] = Error
               /\ currentPhotos' = currentPhotos
               /\ lastFetchTimestamp' = lastFetchTimestamp
               /\ undisturbed(r) => /\ currentPhotos' = pre[r].cur
                                    /\ lastFetchTimestamp' = pre[r].ts]_vars

\* C5 witness: a refresh has just failed while a full set was being served;
\* the set and the window start are the ones the call found.
C5_Witness ==
  /\ lastEvent = "fetchFail"
  /\ \E r \in Reqs :
       /\ pc[r] = "threw"
       /\ result[r] = Error
       /\ Len(pre[r].cur) = PHOTOS_PER_HOUR
       /\ currentPhotos = pre[r].cur
       /\ lastFetchTimestamp = pre[r].ts

\* C6: when the external fetch of a refresh fails, photoQueue and
\* photoHistory have the values they had when the call started.
C6_FailureKeepsQueueAndHistory ==
  [][\A r \in Reqs :
       (pc[r] = "awaitFetch" /\ pc'[r] = "threw" /\ undisturbed(r))
         => /\ photoQueue' = pre[r].queue
            /\ photoHistory' = pre[r].hist]_vars

\* C7: currentPhotos holds PHOTOS_PER_HOUR photos, or none before the first
\* refresh, and every successful return is PHOTOS_PER_HOUR photos long.
C7_NeverPartial ==
  /\ \/ Len(currentPhotos) = PHOTOS_PER_HOUR
     \/ (Len(currentPhotos) = 0 /\ lastFetchTimestamp = Null)
  /\ \A r \in Reqs :
       pc[r] = "returned" => Len(result[r].photos) = PHOTOS_PER_HOUR

\* C8: photoHistory never holds more than MAX_HISTORY_SIZE items.
C8_HistoryBounded == Len(photoHistory) <= MAX_HISTORY_SIZE

\* C8 witness: the log is full and a refresh has just pushed past capacity.
C8_Witness ==
  /\ lastEvent \in {"fetchOk", "callQueue"}
  /\ Len(photoHistory) = MAX_HISTORY_SIZE
  /\ Len(allSelected) > MAX_HISTORY_SIZE

\* the last n elements of s, all of s when it is shorter
LastN(s, n) == IF Len(s) <= n THEN s ELSE SubSeq(s, Len(s) - n + 1, Len(s))

\* C9: photoHistory is the last min(k, MAX_HISTORY_SIZE) of the k items ever
\* selected, in selection order.
C9_OldestEvictedFirst == photoHistory = LastN(allSelected, MAX_HISTORY_SIZE)

\* C9 witness: more than one refresh has evicted, and the oldest surviving
\* item is not the first one ever pushed.
C9_Witness ==
  /\ Len(allSelected) >= MAX_HISTORY_SIZE + PHOTOS_PER_HOUR
  /\ Len(photoHistory) = MAX_HISTORY_SIZE
  /\ photoHistory[1] # allSelected[1]
  /\ photoHistory[1] = allSelected[Len(allSelected) - MAX_HISTORY_SIZE + 1]

\* C10: a refresh that starts with at least PHOTOS_PER_HOUR photos queued
\* issues no external fetch and publishes exactly the first PHOTOS_PER_HOUR
\* queued photos.
C10_QueueBeforeFetch ==
  [][\A r \in Reqs :
       (pc[r] = "idle" /\ pc'[r] # "idle" /\ shouldRefreshPhotos
          /\ Len(photoQueue) >= PHOTOS_PER_HOUR)
         => /\ fetchCalls' = fetchCalls
            /\ pc'[r] = "returned"
            /\ currentPhotos' = SubSeq(photoQueue, 1, PHOTOS_PER_HOUR)
            /\ result'[r] = Returned(SubSeq(photoQueue, 1, PHOTOS_PER_HOUR))
            /\ photoQueue' = SubSeq(photoQueue, PHOTOS_PER_HOUR + 1, Len(photoQueue))]_vars

\* C10 witness: a refresh has just been served from a queue that held more
\* than PHOTOS_PER_HOUR photos, without any fetch.
C10_Witness ==
  /\ lastEvent = "callQueue"
  /\ \E r \in Reqs :
       /\ pc[r] = "returned"
       /\ Len(pre[r].queue) > PHOTOS_PER_HOUR
       /\ fetchCalls = pre[r].fetchCalls
       /\ currentPhotos = SubSeq(pre[r].queue, 1, PHOTOS_PER_HOUR)

\* WINDOW_DURATION in milliseconds
WindowMs == PHOTO_EXPIRATION_MINUTES * 60 * 1000

\* the window is Expired: never started, or WINDOW_DURATION or more has elapsed
Expired == lastFetchTimestamp = Null \/ now - lastFetchTimestamp >= WindowMs

\* C11: a refresh that found k < PHOTOS_PER_HOUR photos q1..qk queued and whose
\* fetch returned f1..fm publishes q1..qk followed by the first
\* PHOTOS_PER_HOUR - k fetched photos, appends the remaining fetched photos to
\* the queue in fetched order, and these are the whole queue when no other
\* call wrote the storage meanwhile.
C11_TopUpComposition ==
  [][\A r \in Reqs :
       (pc[r] = "awaitFetch" /\ pc'[r] = "returned")
         => LET q == pre[r].queue
                f == lastFetched'
                take == Min(PHOTOS_PER_HOUR - Len(q), Len(f))
            IN /\ Len(q) < PHOTOS_PER_HOUR
               /\ currentPhotos' = q \o SubSeq(f, 1, take)
               /\ photoQueue' = photoQueue \o SubSeq(f, take + 1, Len(f))
               /\ undisturbed(r) => photoQueue' = SubSeq(f, take + 1, Len(f))]_vars

\* C11 witness: a refresh found 1..5 photos queued, fetched a full batch, and
\* published the queued photos followed by the head of the batch; the queue is
\* the tail of the batch.
C11_Witness ==
  /\ lastEvent = "fetchOk"
  /\ Len(lastFetched) = PHOTOS_PER_BATCH
  /\ \E r \in Reqs :
       LET k == Len(pre[r].queue)
       IN /\ pc[r] = "returned"
          /\ k >= 1
          /\ k < PHOTOS_PER_HOUR
          /\ refreshes = pre[r].refreshes + 1
          /\ fetchCalls = pre[r].fetchCalls + 1
          /\ currentPhotos = pre[r].queue \o SubSeq(lastFetched, 1, PHOTOS_PER_HOUR - k)
          /\ photoQueue = SubSeq(lastFetched, PHOTOS_PER_HOUR - k + 1, PHOTOS_PER_BATCH)

\* C12: a call starts a refresh if and only if lastFetchTimestamp is unset or
\* at least WINDOW_DURATION has elapsed since it (boundary inclusive).
C12_ExpiryDecision ==
  [][\A r \in Reqs :
       (pc[r] = "idle" /\ pc'[r] # "idle")
         => ((pc'[r] = "awaitFetch" \/ refreshes' = refreshes + 1) <=> Expired)]_vars

\* C12 witness: a call has just started a refresh exactly WINDOW_DURATION
\* after the window start it found.
C12_Witness ==
  /\ lastEvent \in {"callFetch", "callQueue"}
  /\ \E r \in Reqs :
       /\ pc[r] \in {"awaitFetch", "returned"}
       /\ pre[r].at = now
       /\ pre[r].ts # Null
       /\ now - pre[r].ts = WindowMs

\* C13: a call that finds the window not expired returns currentPhotos, issues
\* no fetch and leaves the four stores unchanged.
C13_FreshCallIsPureRead ==
  [][\A r \in Reqs :
       (pc[r] = "idle" /\ pc'[r] # "idle" /\ ~Expired)
         => /\ pc'[r] = "returned"
            /\ result'[r] = Returned(currentPhotos)
            /\ fetchCalls' = fetchCalls
            /\ UNCHANGED <<currentPhotos, photoQueue, photoHistory,
                           lastFetchTimestamp>>]_vars

\* C13 witness: a cached read has just returned the full current set while
\* photos were waiting in the queue, and the queue is as the call found it.
C13_Witness ==
  /\ lastEvent = "callFresh"
  /\ \E r \in Reqs :
       /\ pc[r] = "returned"
       /\ pre[r].at = now
       /\ Len(currentPhotos) = PHOTOS_PER_HOUR
       /\ result[r] = Returned(currentPhotos)
       /\ photoQueue # <<>>
       /\ photoQueue = pre[r].queue
       /\ photoHistory = pre[r].hist

\* request r commits a refresh in this step
commits(r) ==
  /\ pc[r] \in {"idle", "awaitFetch"}
  /\ pc'[r] = "returned"
  /\ refreshes' = refreshes + 1

\* the clock reading of the expiry test of the call that r is about to finish
decisionAt(r) == IF pc[r] = "idle" THEN now ELSE pre[r].at

\* the instant an ISO text denotes (Date.parse)
fromISO(x) == x[2]

\* C14: currentPhotos and lastFetchTimestamp change only in a step that
\* commits a refresh, and such a step happens only while the window is Expired.
C14_CommitOnlyWhenExpired ==
  [][(currentPhotos' # currentPhotos \/ lastFetchTimestamp' # lastFetchTimestamp)
       => (refreshes' = refreshes + 1 /\ Expired)]_vars

\* C15 as stated: after a refresh, lastFetchTimestamp is the clock reading the
\* call used for its expiry test.
C15_StampIsDecisionNow ==
  [][\A r \in Reqs : commits(r) => lastFetchTimestamp' = decisionAt(r)]_vars

\* C15 amended: after a refresh, lastFetchTimestamp is the clock reading at the
\* moment the refresh commits (after the fetch resolved), never earlier than
\* the reading of the expiry test.
C15_StampIsCommitTime ==
  [][\A r \in Reqs :
       commits(r) => /\ lastFetchTimestamp' = now'
                     /\ lastFetchTimestamp' >= decisionAt(r)]_vars

\* C15 witness: a refresh whose fetch resolved after the clock had advanced
\* has just committed; the window starts at the later instant.
C15_Witness ==
  /\ lastEvent = "fetchOk"
  /\ \E r \in Reqs :
       /\ pc[r] = "returned"
       /\ photos[r] # <<>>
       /\ photos[r] = currentPhotos
       /\ pre[r].at < now
       /\ lastFetchTimestamp = now

\* the history items a commit step pushed that are still in the log
pushedNow == LastN(photoHistory', Min(Len(currentPhotos'), MAX_HISTORY_SIZE))

C17_ExactlyPerHourAppended ==
  [][IF refreshes' = refreshes + 1
     THEN /\ Len(currentPhotos') = PHOTOS_PER_HOUR
          /\ photoHistory' =
               LastN(photoHistory \o
                       [i \in 1..PHOTOS_PER_HOUR |->
                          [id |-> currentPhotos'[i].id, timestamp |-> toISOString(now)]],
                     MAX_HISTORY_SIZE)
     ELSE photoHistory' = photoHistory]_vars

\* C18: right after a refresh that fetched, the queue holds at most
\* PHOTOS_PER_BATCH - 1 photos, provided every fetch returned exactly
\* PHOTOS_PER_BATCH records.
C18_QueueBoundAfterFetch ==
  (lastEvent = "fetchOk" /\ exactOnly) => Len(photoQueue) <= PHOTOS_PER_BATCH - 1

\* C19: the window start never moves back, and a call that starts less than
\* WINDOW_DURATION after it issues no external fetch.
C19_NoFetchWhileFresh ==
  [][/\ lastFetchTimestamp' >= lastFetchTimestamp
     /\ \A r \in Reqs :
          (pc[r] = "idle" /\ pc'[r] # "idle" /\ lastFetchTimestamp # Null
             /\ now - lastFetchTimestamp < WindowMs)
            => (fetchCalls' = fetchCalls /\ pc'[r] # "awaitFetch")]_vars

\* C19 witness: a call made one millisecond before the window expires has
\* returned without a fetch.
C19_Witness ==
  /\ lastEvent = "callFresh"
  /\ lastFetchTimestamp # Null
  /\ now - lastFetchTimestamp = WindowMs - 1
  /\ \E r \in Reqs :
       /\ pc[r] = "returned"
       /\ pre[r].at = now
       /\ fetchCalls = pre[r].fetchCalls
       /\ fetchCalls >= 1

\* C20: a fetch that resolves with a number of records other than
\* PHOTOS_PER_BATCH commits the refresh; the records taken into currentPhotos
\* (at most as many as were still needed, from the front) followed by the
\* records appended to the queue are exactly the records returned.
C20_OddFetchNothingDropped ==
  [][\A r \in Reqs :
       (pc[r] = "awaitFetch" /\ pc'[r] # "awaitFetch" /\ lastEvent' = "fetchOk"
          /\ Len(lastFetched') # PHOTOS_PER_BATCH)
         => LET f == lastFetched'
                needed == PHOTOS_PER_HOUR - Len(photos[r])
                taken == SubSeq(currentPhotos', Len(photos[r]) + 1, Len(currentPhotos'))
                queued == SubSeq(photoQueue', Len(photoQueue) + 1, Len(photoQueue'))
            IN /\ pc'[r] = "returned"
               /\ refreshes' = refreshes + 1
               /\ SubSeq(currentPhotos', 1, Len(photos[r])) = photos[r]
               /\ SubSeq(photoQueue', 1, Len(photoQueue)) = photoQueue
               /\ Len(taken) = Min(needed, Len(f))
               /\ taken \o queued = f]_vars

\* C20 witness: a fetch has just resolved with more records than requested;
\* the current set is full and the last record returned is the tail of the queue.
C20_Witness ==
  /\ lastEvent = "fetchOk"
  /\ Len(lastFetched) > PHOTOS_PER_BATCH
  /\ Len(currentPhotos) = PHOTOS_PER_HOUR
  /\ photoQueue # <<>>
  /\ photoQueue[Len(photoQueue)] = lastFetched[Len(lastFetched)]
  /\ \E r \in Reqs :
       /\ pc[r] = "returned"
       /\ photos[r] = currentPhotos
       /\ Len(photoQueue) >= Len(lastFetched) - PHOTOS_PER_HOUR

\* ids of the photos or history items of a sequence
idsOf(s) == [i \in 1..Len(s) |-> s[i].id]

idSet(s) == {s[i].id : i \in 1..Len(s)}

\* C22: GET /api/history answers with the retained log in insertion order,
\* oldest entry first, and leaves the current set, the queue, the window start
\* and the log as they were, also while refreshes are in flight.
C22_HistoryReadIsPure ==
  [][lastEvent' = "history" =>
       /\ historyBody' = LastN(allSelected, MAX_HISTORY_SIZE)
       /\ UNCHANGED <<currentPhotos, photoQueue, lastFetchTimestamp, photoHistory>>]_vars

\* a read of a full log whose oldest entries were evicted, taken while a
\* refresh is awaiting its fetch
C22_Witness ==
  /\ lastEvent = "history"
  /\ inFlight # {}
  /\ Len(allSelected) > MAX_HISTORY_SIZE
  /\ Len(historyBody) = MAX_HISTORY_SIZE
  /\ historyBody = LastN(allSelected, MAX_HISTORY_SIZE)
  /\ historyBody[1].id # historyBody[MAX_HISTORY_SIZE].id

\* C24: a photo record is in one place at a time and is used once: the queue
\* holds no photo twice, no photo is selected into a current set twice, no
\* photo is at once queued and current or queued and already selected, and the
\* photos a suspended call took from the queue are in no other call's local
\* list, not in the queue and not yet selected.
C24_MovedNeverShared ==
  /\ Cardinality(idSet(photoQueue)) = Len(photoQueue)
  /\ Cardinality(idSet(allSelected)) = Len(allSelected)
  /\ idSet(photoQueue) \cap idSet(currentPhotos) = {}
  /\ idSet(photoQueue) \cap idSet(allSelected) = {}
  /\ \A r \in inFlight :
       /\ Cardinality(idSet(photos[r])) = Len(photos[r])
       /\ idSet(photos[r]) \cap idSet(photoQueue) = {}
       /\ idSet(photos[r]) \cap idSet(allSelected) = {}
       /\ \A q \in inFlight \ {r} : idSet(photos[r]) \cap idSet(photos[q]) = {}

\* a call moved queued photos into the current set and queued the surplus of
\* its fetch while another call is awaiting its own fetch
C24_Witness ==
  /\ photoQueue # <<>>
  /\ \E r \in Reqs :
       /\ pc[r] = "returned"
       /\ pre[r].queue # <<>>
       /\ currentPhotos # <<>>
       /\ currentPhotos[1] = pre[r].queue[1]
  /\ inFlight # {}

\* C26: the current set is empty exactly when the window start is unset.
C26_EmptyIffUnset == (currentPhotos = <<>>) <=> (lastFetchTimestamp = Null)

\* C27: while the current set is not empty, the newest entries of the log, as
\* many as the set has photos, carry the ids of the set in the set's order.
C27_HistoryCoupled ==
  currentPhotos # <<>> =>
    idsOf(LastN(photoHistory, Len(currentPhotos))) = idsOf(currentPhotos)

\* two refreshes of one expired window committed one after the other, the log
\* is full and ends with the full set of the later one
C27_Witness ==
  /\ refreshes >= 2
  /\ epoch = 0
  /\ Len(currentPhotos) = PHOTOS_PER_HOUR
  /\ Len(photoHistory) = MAX_HISTORY_SIZE
  /\ idsOf(LastN(photoHistory, PHOTOS_PER_HOUR)) = idsOf(currentPhotos)

\* C28: the body of a history read is the retained end of the entries of the
\* refreshes committed so far: it holds every entry of the refresh that
\* committed last and no entry of a refresh that is still awaiting its fetch.
C28_NoHalfRecordedRefresh ==
  lastEvent = "history" =>
    /\ historyBody = LastN(allSelected, MAX_HISTORY_SIZE)
    /\ Len(historyBody) >= Min(Len(currentPhotos), MAX_HISTORY_SIZE)
    /\ idsOf(LastN(historyBody, Len(currentPhotos))) = idsOf(currentPhotos)
    /\ \A r \in inFlight : idSet(photos[r]) \cap idSet(historyBody) = {}

\* a read taken after one refresh committed a full set and while another,
\* holding photos it took from the queue, awaits its fetch
C28_Witness ==
  /\ lastEvent = "history"
  /\ Len(currentPhotos) = PHOTOS_PER_HOUR
  /\ Len(historyBody) >= PHOTOS_PER_HOUR
  /\ \E r \in inFlight : photos[r] # <<>>

\* C21: a fetch failure of a call whose refresh nobody overtook leaves the
\* window expired, so the next call refreshes again; and once fetches
\* succeed and calls keep arriving, every failure is followed by a state in
\* which the window is fresh and the current set is full.
C21_RecoveryAfterFailure ==
  /\ [][\A r \in Reqs :
          (pc[r] = "awaitFetch" /\ pc'[r] = "threw" /\ refreshes = pre[r].refreshes)
            => shouldRefreshAt(lastFetchTimestamp', now')]_vars
  /\ (lastEvent = "fetchFail") ~> (~Expired /\ Len(currentPhotos) = PHOTOS_PER_HOUR)

\* the first fetch failed, a later call fetched again and its commit made the
\* window fresh with a full set
C21_Witness ==
  /\ lastEvent = "fetchOk"
  /\ fetchCalls = 2
  /\ refreshes = 1
  /\ inFlight = {}
  /\ \E r \in Reqs : pc[r] = "returned" /\ pre[r].fetchCalls = 1
  /\ ~Expired
  /\ Len(currentPhotos) = PHOTOS_PER_HOUR

\* C23: addToHistory builds an item from every photo record, whichever of
\* its optional fields are there: the name is the user's name, or "Unknown";
\* the description is the description, else the alt text, else empty; the link
\* is links.html, else the URL built from the id.  A field that is undefined,
\* null or empty counts as not there.
C23_FallbacksForEveryCombination ==
  /\ recorded = NoItem => ENABLED RecordPhoto
  /\ recorded # NoItem =>
       /\ recorded.id = photoIn.id
       /\ recorded.name =
            (IF photoIn.user.defined /\ photoIn.user.name = <<"Ann Lee">>
             THEN <<"Ann Lee">> ELSE <<"Unknown">>)
       /\ recorded.description =
            (IF photoIn.description = <<"a sunset">> THEN <<"a sunset">>
             ELSE IF photoIn.alt_description = <<"orange sky">> THEN <<"orange sky">>
             ELSE <<>>)
       /\ recorded.link =
            (IF photoIn.links.defined /\ photoIn.links.html # Undefined
             THEN photoIn.links.html
             ELSE <<"https://unsplash.com/photos/", photoIn.id[1]>>)
       /\ photoHistory = <<recorded>>

\* a photo without user, description and links, with an alt text, was recorded
C23_Witness ==
  /\ recorded # NoItem
  /\ ~photoIn.user.defined
  /\ photoIn.description = NullText
  /\ photoIn.alt_description = <<"orange sky">>
  /\ ~photoIn.links.defined
  /\ recorded.name = <<"Unknown">>
  /\ recorded.description = <<"orange sky">>
  /\ recorded.link = <<"https://unsplash.com/photos/", "p1">>

\* C25: the index the client shows is the minute of its clock divided by
\* ten, rounded down: it lies in 0..PHOTOS_PER_HOUR - 1, the minutes
\* 10 * index .. 10 * index + 9 and no others map to it, and it is a position
\* of a full set.
C25_IndexIsTenMinuteBlock ==
  /\ currentTime \in Minutes
  /\ getPhotoIndex \in 0..(PHOTOS_PER_HOUR - 1)
  /\ 10 * getPhotoIndex <= currentTime
  /\ currentTime <= 10 * getPhotoIndex + 9
  /\ Len(appPhotos) = PHOTOS_PER_HOUR => (getPhotoIndex + 1) \in DOMAIN appPhotos

\* the last minute of the hour with a full set loaded: the last photo shows
C25_Witness ==
  /\ mounted
  /\ currentTime = 59
  /\ Len(appPhotos) = PHOTOS_PER_HOUR
  /\ ~loading
  /\ getPhotoIndex = PHOTOS_PER_HOUR - 1

\* C29: the client issues at most one /api/photos request for each hour
\* value, and no two requests for one hour are pending together.
C29_OneRequestPerHour ==
  /\ \A i, j \in 1..Len(issued) : i # j => issued[i] # issued[j]
  /\ \A i, j \in 1..Len(pendingHours) : i # j => pendingHours[i] # pendingHours[j]

====
